---- MODULE Spec2Model ----
(***************************************************************************)
(* Model of src/src/main.js: calculateSimpleRevenue, calculateBonusByProfit *)
(* and analyzeSalesData.                                                   *)
(*                                                                         *)
(* Numbers.  Every monetary amount is an integer count of 10^-6 currency   *)
(* units (Unit = one currency unit, Cent = one hundredth).  Input prices   *)
(* are whole cents and discounts whole percents, so every product the code *)
(* forms (price * quantity * (1 - discount/100), profit * 0.15, ...) is an  *)
(* exact multiple of 10^-6 and the divisions below are exact.  Quantities  *)
(* and discounts are plain integers.                                       *)
(*                                                                         *)
(* JavaScript values that reach a Number(...) conversion are tagged        *)
(* records [t, v]: a number, a numeric string, a non-numeric string, null  *)
(* or undefined.                                                           *)
(***************************************************************************)
EXTENDS Integers, Sequences, FiniteSets

VARIABLES data, options, pc, error, sellerStats, ri, result, call, ret

vars == <<data, options, pc, error, sellerStats, ri, result, call, ret>>

Cent == 100 * 100
Unit == 100 * Cent

\* ------------------------------------------------------------ JS values
Num(n) == [t |-> "number", v |-> n]
NumStr(n) == [t |-> "numstr", v |-> n]
Str == [t |-> "string", v |-> 0]
Null == [t |-> "null", v |-> 0]
Undef == [t |-> "undefined", v |-> 0]
NaN == [t |-> "nan", v |-> 0]
Fn == [t |-> "function", v |-> 0]

\* Number(x): numbers and numeric strings convert to their value, null to
\* 0, undefined and non-numeric strings to NaN.
Number(x) ==
    CASE x.t = "number" -> x
      [] x.t = "numstr" -> Num(x.v)
      [] x.t = "null" -> Num(0)
      [] OTHER -> NaN

\* Number(x) || 0: NaN and 0 are falsy.
NumberOr0(x) == IF Number(x).t = "nan" THEN 0 ELSE Number(x).v

\* isNaN(Number(x))
IsNaNNumber(x) == Number(x).t = "nan"

\* (+x.toFixed(2)): the nearest whole number of cents, a half rounding away
\* from zero, in exact arithmetic.
RoundCents(a) == ((a + Cent \div 2) \div Cent) * Cent
toFixed2(x) == IF x >= 0 THEN RoundCents(x) ELSE 0 - RoundCents(0 - x)

\* ------------------------------------------------- calculateSimpleRevenue
calculateSimpleRevenueNoComplement(purchase, product) ==
    LET sale_price == NumberOr0(purchase.sale_price)
        quantity == NumberOr0(purchase.quantity)
        discount == NumberOr0(purchase.discount)
    IN  (sale_price * quantity * discount) \div 100

calculateSimpleRevenue(purchase, product) ==
    LET sale_price == NumberOr0(purchase.sale_price)
        quantity == NumberOr0(purchase.quantity)
        discount == NumberOr0(purchase.discount)
        \* factor = 1 - discount / 100 = (100 - discount) / 100
    IN  (sale_price * quantity * (100 - discount)) \div 100

\* ------------------------------------------------- calculateBonusByProfit
\* profit * p / 100, exact: profit is a multiple of 100 * 10^-6.
Percent(profit, p) == (profit \div 100) * p

calculateBonusThirdAsRest(index, total, seller) ==
    IF index = 0 THEN Percent(seller.profit, 15)
    ELSE IF index = 1 THEN Percent(seller.profit, 10)
    ELSE IF index = total - 1 THEN 0
    ELSE Percent(seller.profit, 5)

calculateBonusLastFirst(index, total, seller) ==
    IF index = total - 1 THEN 0
    ELSE IF index = 0 THEN Percent(seller.profit, 15)
    ELSE IF index = 1 \/ index = 2 THEN Percent(seller.profit, 10)
    ELSE Percent(seller.profit, 5)

calculateBonusByProfit(index, total, seller) ==
    IF index = 0 THEN Percent(seller.profit, 15)
    ELSE IF index = 1 \/ index = 2 THEN Percent(seller.profit, 10)
    ELSE IF index = total - 1 THEN 0
    ELSE Percent(seller.profit, 5)

\* ------------------------------------------------------- analyzeSalesData
\* An input collection: an array with elements a, or a value of another
\* type (undefined, null, a string).
Arr(s) == [t |-> "array", a |-> s]
NotArr(kind) == [t |-> kind, a |-> <<>>]

\* The messages thrown, in the order of the checks:
\*   "InvalidInput"            main.js:45
\*   "MissingSellers"          main.js:49
\*   "MissingProducts"         main.js:53
\*   "MissingPurchaseRecords"  main.js:57
\*   "InvalidOptions"          main.js:61 and main.js:66 (the same message)
BadCollection(c) == c.t \in {"undefined", "null"} \/ c.t # "array" \/ Len(c.a) = 0

ValidateProductsFirst(d, o) ==
    IF d.t \in {"undefined", "null"} \/ d.t # "object" THEN "InvalidInput"
    ELSE IF BadCollection(d.products) THEN "MissingProducts"
    ELSE IF BadCollection(d.sellers) THEN "MissingSellers"
    ELSE IF BadCollection(d.purchase_records) THEN "MissingPurchaseRecords"
    ELSE IF o.t \in {"undefined", "null"} \/ o.t # "object" THEN "InvalidOptions"
    ELSE IF o.calculateRevenue.t # "function" \/ o.calculateBonus.t # "function"
         THEN "InvalidOptions"
    ELSE "none"

Validate(d, o) ==
    IF d.t \in {"undefined", "null"} \/ d.t # "object" THEN "InvalidInput"
    ELSE IF BadCollection(d.sellers) THEN "MissingSellers"
    ELSE IF BadCollection(d.products) THEN "MissingProducts"
    ELSE IF BadCollection(d.purchase_records) THEN "MissingPurchaseRecords"
    ELSE IF o.t \in {"undefined", "null"} \/ o.t # "object" THEN "InvalidOptions"
    ELSE IF o.calculateRevenue.t # "function" \/ o.calculateBonus.t # "function"
         THEN "InvalidOptions"
    ELSE "none"

\* The strategies passed in options are the two functions of this file.
calculateRevenue(item, product) == calculateSimpleRevenue(item, product)
calculateBonus(index, total, seller) == calculateBonusByProfit(index, total, seller)

\* data.sellers.map(seller => ({ id, name, revenue: 0, ... }))
NewStats(seller) ==
    [id |-> seller.id, name |-> <<seller.first_name, seller.last_name>>,
     revenue |-> 0, profit |-> 0, sales_count |-> 0, products_sold |-> <<>>]

InitStats(sellers) == [i \in 1..Len(sellers) |-> NewStats(sellers[i])]

\* sellerIndex[id]: Object.fromEntries keeps the last entry of a key; 0
\* stands for undefined.
SellerIndex(stats, id) ==
    LET hits == {i \in 1..Len(stats) : stats[i].id = id}
    IN  IF hits = {} THEN 0 ELSE CHOOSE i \in hits : \A j \in hits : j <= i

\* productIndex[sku] || {}: the last product with that sku, or an object
\* with no fields.
NoProduct == [sku |-> 0, sale_price |-> Undef, purchase_price |-> Undef]
ProductIndex(products, sku) ==
    LET hits == {i \in 1..Len(products) : products[i].sku = sku}
    IN  IF hits = {} THEN NoProduct
        ELSE products[CHOOSE i \in hits : \A j \in hits : j <= i]

\* if (!products_sold[sku]) products_sold[sku] = 0; products_sold[sku] += qty
\* products_sold keeps its keys in insertion order.
AddSold(sold, sku, qty) ==
    LET hits == {i \in 1..Len(sold) : sold[i].sku = sku}
    IN  IF hits = {} THEN Append(sold, [sku |-> sku, quantity |-> 0 + qty])
        ELSE [sold EXCEPT ![CHOOSE i \in hits : TRUE].quantity = @ + qty]

\* The body of (record.items || []).forEach(item => ...)
FoldItemCostAdded(seller, item, products) ==
    LET product == ProductIndex(products, item.sku)
        purchasePrice == NumberOr0(product.purchase_price)
        qty == NumberOr0(item.quantity)
        revenue == calculateRevenue(item, product)
        cost == purchasePrice * qty
        profit == revenue + cost
    IN  [seller EXCEPT !.profit = @ + profit,
                       !.products_sold = AddSold(@, item.sku, qty)]

FoldItem(seller, item, products) ==
    LET product == ProductIndex(products, item.sku)
        purchasePrice == NumberOr0(product.purchase_price)
        qty == NumberOr0(item.quantity)
        revenue == calculateRevenue(item, product)
        cost == purchasePrice * qty
        profit == revenue - cost
    IN  [seller EXCEPT !.profit = @ + profit,
                       !.products_sold = AddSold(@, item.sku, qty)]

RECURSIVE FoldItems(_, _, _)
FoldItems(seller, items, products) ==
    IF items = <<>> THEN seller
    ELSE FoldItems(FoldItem(seller, Head(items), products), Tail(items), products)

\* items.reduce((sum, item) => sum + Number(calculateRevenue(item, ...)), 0)
RECURSIVE ItemsRevenue(_, _)
ItemsRevenue(items, products) ==
    IF items = <<>> THEN 0
    ELSE calculateRevenue(Head(items), ProductIndex(products, Head(items).sku))
         + ItemsRevenue(Tail(items), products)

RecordRevenue(record, products) ==
    IF record.total_amount.t # "undefined" /\ ~IsNaNNumber(record.total_amount)
    THEN Number(record.total_amount).v
    ELSE ItemsRevenue(record.items, products)

\* The body of data.purchase_records.forEach(record => ...)
FoldRecordNoSkip(stats, record, products) ==
    LET k == SellerIndex(stats, record.seller_id)
        i == IF k = 0 THEN 1 ELSE k
    IN  [stats EXCEPT ![i] =
              FoldItems([@ EXCEPT !.sales_count = @ + 1,
                                  !.revenue = @ + RecordRevenue(record, products)],
                        record.items, products)]

FoldRecord(stats, record, products) ==
    LET i == SellerIndex(stats, record.seller_id)
    IN  IF i = 0 THEN stats
        ELSE [stats EXCEPT ![i] =
                  FoldItems([@ EXCEPT !.sales_count = @ + 1,
                                      !.revenue = @ + RecordRevenue(record, products)],
                            record.items, products)]

RECURSIVE FoldAll(_, _, _)
FoldAll(stats, records, products) ==
    IF records = <<>> THEN stats
    ELSE FoldAll(FoldRecord(stats, Head(records), products), Tail(records), products)

\* sellerStats.sort((a, b) => b.profit - a.profit): Array.prototype.sort is
\* stable, so it is an insertion of each element behind every element it
\* does not precede.
InsertByProfit(sorted, x) ==
    LET n == Cardinality({i \in 1..Len(sorted) : sorted[i].profit >= x.profit})
    IN  SubSeq(sorted, 1, n) \o <<x>> \o SubSeq(sorted, n + 1, Len(sorted))

RECURSIVE SortPrefix(_, _)
SortPrefix(stats, k) ==
    IF k = 0 THEN <<>> ELSE InsertByProfit(SortPrefix(stats, k - 1), stats[k])

InsertTiesFirst(sorted, x) ==
    LET n == Cardinality({i \in 1..Len(sorted) : sorted[i].profit > x.profit})
    IN  SubSeq(sorted, 1, n) \o <<x>> \o SubSeq(sorted, n + 1, Len(sorted))

RECURSIVE SortPrefixTiesFirst(_, _)
SortPrefixTiesFirst(stats, k) ==
    IF k = 0 THEN <<>>
    ELSE InsertTiesFirst(SortPrefixTiesFirst(stats, k - 1), stats[k])

SortByProfitUnstable(stats) == SortPrefixTiesFirst(stats, Len(stats))

SortByProfit(stats) == SortPrefix(stats, Len(stats))

\* Object.entries(products_sold).map(...).sort((a, b) => b.quantity - a.quantity)
InsertByQuantity(sorted, x) ==
    LET n == Cardinality({i \in 1..Len(sorted) : sorted[i].quantity >= x.quantity})
    IN  SubSeq(sorted, 1, n) \o <<x>> \o SubSeq(sorted, n + 1, Len(sorted))

RECURSIVE SortQuantityPrefix(_, _)
SortQuantityPrefix(entries, k) ==
    IF k = 0 THEN <<>>
    ELSE InsertByQuantity(SortQuantityPrefix(entries, k - 1), entries[k])

SortByQuantity(entries) == SortQuantityPrefix(entries, Len(entries))

TopN == 10

\* .slice(0, 10)
Slice(s, n) == SubSeq(s, 1, IF Len(s) < n THEN Len(s) ELSE n)

TopProductsSliceFirst(sold) == SortByQuantity(Slice(sold, TopN))

TopProducts(sold) == Slice(SortByQuantity(sold), TopN)

\* The body of sellerStats.forEach((seller, index) => ...)
FinalizeSeller(seller, index, total) ==
    [id |-> seller.id, name |-> seller.name,
     sales_count |-> seller.sales_count, products_sold |-> seller.products_sold,
     bonus |-> toFixed2(calculateBonus(index, total, seller)),
     top_products |-> TopProducts(seller.products_sold),
     revenue |-> toFixed2(seller.revenue),
     profit |-> toFixed2(seller.profit)]

Finalize(stats) ==
    [i \in 1..Len(stats) |-> FinalizeSeller(stats[i], i - 1, Len(stats))]

\* return sellerStats.map(s => ({ seller_id: s.id, ... }))
ProjectActiveOnly(stats) ==
    LET out(s) == [seller_id |-> s.id, name |-> s.name, revenue |-> s.revenue,
                   profit |-> s.profit, sales_count |-> s.sales_count,
                   top_products |-> s.top_products, bonus |-> s.bonus]
    IN  SelectSeq([i \in 1..Len(stats) |-> out(stats[i])],
                  LAMBDA r : r.sales_count > 0)

Project(stats) ==
    [i \in 1..Len(stats) |->
        [seller_id |-> stats[i].id, name |-> stats[i].name,
         revenue |-> stats[i].revenue, profit |-> stats[i].profit,
         sales_count |-> stats[i].sales_count,
         top_products |-> stats[i].top_products, bonus |-> stats[i].bonus]]

\* ------------------------------------------------------------------ inputs
MaxSellers == 3
MaxRecords == 2
ExtraSkus == 1

\* n sellers with distinct ids 1..n, in ascending or descending id order.
SellerSeq(n, descending) ==
    [i \in 1..n |-> [id |-> IF descending THEN n + 1 - i ELSE i,
                     first_name |-> "first", last_name |-> "last"]]
SellerSeqs == {SellerSeq(n, d) : n \in 1..MaxSellers, d \in BOOLEAN}

\* The catalogue: sku 2 is listed twice, sku 3 has no purchase_price, and
\* skus above 3 are not listed.
Catalogue ==
    << [sku |-> 1, sale_price |-> Num(5 * Cent), purchase_price |-> Num(1 * Cent)],
       [sku |-> 2, sale_price |-> Num(5 * Cent), purchase_price |-> Num(3 * Cent)],
       [sku |-> 2, sale_price |-> Num(5 * Cent), purchase_price |-> Num(4 * Cent)],
       [sku |-> 3, sale_price |-> Num(4 * Cent), purchase_price |-> Undef] >>

ItemA == [sku |-> 1, sale_price |-> Num(5 * Cent), quantity |-> Num(2), discount |-> Undef]
ItemB == [sku |-> 2, sale_price |-> Num(5 * Cent), quantity |-> Num(1), discount |-> Num(50)]
ItemC == [sku |-> 3, sale_price |-> NumStr(4 * Cent), quantity |-> Num(2), discount |-> Num(0)]
ItemD == [sku |-> 1, sale_price |-> Num(5 * Cent), quantity |-> Str, discount |-> Num(10)]

\* A receipt of TopN + ExtraSkus distinct skus with unsorted, repeating
\* quantities.
WideItems ==
    [i \in 1..(TopN + ExtraSkus) |->
        [sku |-> i, sale_price |-> Num(1 * Cent),
         quantity |-> Num(1 + ((i * 3) % 4)), discount |-> Undef]]

RecordShapes ==
    { [items |-> <<ItemA>>, total_amount |-> NumStr(10 * Cent)],
      [items |-> <<ItemB, ItemD, ItemA>>, total_amount |-> Num(7 * Cent)],
      [items |-> <<ItemC>>, total_amount |-> Str],
      [items |-> WideItems, total_amount |-> Undef] }

\* Seller ids above the number of sellers given are unknown to the run.
RecordPool ==
    { [seller_id |-> id, items |-> sh.items, total_amount |-> sh.total_amount] :
        id \in 1..(MaxSellers + 1), sh \in RecordShapes }

RECURSIVE SeqsUpTo(_, _)
SeqsUpTo(S, n) ==
    IF n = 0 THEN {<<>>}
    ELSE LET shorter == SeqsUpTo(S, n - 1)
         IN  shorter \cup {Append(q, x) : q \in {r \in shorter : Len(r) = n - 1}, x \in S}

RecordSeqs == SeqsUpTo(RecordPool, MaxRecords) \ {<<>>}

GoodOptions == [t |-> "object", calculateRevenue |-> Fn, calculateBonus |-> Fn]

ValidData ==
    { [t |-> "object", sellers |-> Arr(s), products |-> Arr(Catalogue),
       purchase_records |-> Arr(r)] : s \in SellerSeqs, r \in RecordSeqs }

\* Inputs of every shape the checks of main.js:44-67 tell apart.
CollectionShapes(good) == {NotArr("undefined"), NotArr("string"), Arr(<<>>), Arr(good)}
OneRecord == <<[seller_id |-> 1, items |-> <<ItemA>>, total_amount |-> Undef]>>
ShapedData ==
    { [t |-> k, sellers |-> NotArr("undefined"), products |-> NotArr("undefined"),
       purchase_records |-> NotArr("undefined")] : k \in {"undefined", "null", "string"} }
    \cup
    { [t |-> "object", sellers |-> s, products |-> p, purchase_records |-> r] :
        s \in CollectionShapes(SellerSeq(1, FALSE)),
        p \in CollectionShapes(Catalogue),
        r \in CollectionShapes(OneRecord) }
ShapedOptions ==
    { [t |-> k, calculateRevenue |-> Undef, calculateBonus |-> Undef] :
        k \in {"undefined", "string"} }
    \cup
    { [t |-> "object", calculateRevenue |-> f, calculateBonus |-> g] :
        f \in {Fn, Undef, Str}, g \in {Fn, Undef, Str} }

NoCall == [fn |-> "none"]

\* --------------------------------------------------- analyzeSalesData run
Init ==
    /\ \/ data \in ValidData /\ options = GoodOptions
       \/ data \in ShapedData /\ options \in ShapedOptions
    /\ pc = "start"
    /\ error = "none"
    /\ sellerStats = <<>>
    /\ ri = 0
    /\ result = <<>>
    /\ call = NoCall
    /\ ret = 0

\* main.js:43-80: the checks, then the accumulators.
Check ==
    /\ pc = "start"
    /\ error' = Validate(data, options)
    /\ IF error' # "none"
       THEN /\ pc' = "failed"
            /\ UNCHANGED <<sellerStats, ri>>
       ELSE /\ pc' = "fold"
            /\ sellerStats' = InitStats(data.sellers.a)
            /\ ri' = 1
    /\ UNCHANGED <<data, options, result, call, ret>>

\* main.js:83-115: one iteration of purchase_records.forEach.
Fold ==
    /\ pc = "fold"
    /\ ri <= Len(data.purchase_records.a)
    /\ sellerStats' = FoldRecord(sellerStats, data.purchase_records.a[ri], data.products.a)
    /\ ri' = ri + 1
    /\ UNCHANGED <<data, options, pc, error, result, call, ret>>

\* main.js:118
Rank ==
    /\ pc = "fold"
    /\ ri > Len(data.purchase_records.a)
    /\ sellerStats' = SortByProfit(sellerStats)
    /\ pc' = "finalize"
    /\ UNCHANGED <<data, options, error, ri, result, call, ret>>

\* main.js:121-133
FinalizeAll ==
    /\ pc = "finalize"
    /\ sellerStats' = Finalize(sellerStats)
    /\ pc' = "project"
    /\ UNCHANGED <<data, options, error, ri, result, call, ret>>

\* main.js:136-144
Return ==
    /\ pc = "project"
    /\ result' = Project(sellerStats)
    /\ pc' = "done"
    /\ UNCHANGED <<data, options, error, sellerStats, ri, call, ret>>

Next == Check \/ Fold \/ Rank \/ FinalizeAll \/ Return

Spec == Init /\ [][Next]_vars

\* ------------------------------------------- calculateBonusByProfit calls
MaxTotal == 6
ProfitValues == {(0 - 100) * Unit, 0, 100 * Unit, 200 * Unit, 300 * Unit,
                 400 * Unit, 500 * Unit, 1000 * Unit}

InitBonus ==
    /\ \E total \in 1..MaxTotal, index \in 0..(MaxTotal - 1), p \in ProfitValues :
          /\ index < total
          /\ call = [fn |-> "calculateBonusByProfit", index |-> index,
                     total |-> total, seller |-> [profit |-> p]]
    /\ pc = "call"
    /\ ret = 0
    /\ data = NotArr("undefined") /\ options = Undef /\ error = "none"
    /\ sellerStats = <<>> /\ ri = 0 /\ result = <<>>

CallBonus ==
    /\ pc = "call"
    /\ call.fn = "calculateBonusByProfit"
    /\ ret' = calculateBonusByProfit(call.index, call.total, call.seller)
    /\ pc' = "returned"
    /\ UNCHANGED <<data, options, error, sellerStats, ri, result, call>>

NextBonus == CallBonus

SpecBonus == InitBonus /\ [][NextBonus]_vars

\* ------------------------------------------- calculateSimpleRevenue calls
PriceValues == {Undef, Str, Null, Num(0), Num(1 * Cent), Num(5 * Cent),
                NumStr(5 * Cent), Num((0 - 5) * Cent)}
QuantityValues == {Undef, Str, Num(0), Num(1), Num(3), NumStr(3), Num(0 - 2)}
DiscountValues == {Undef, Str, Null, Num(0), Num(10), NumStr(10), Num(100),
                   Num(150), Num(0 - 10)}

InitRevenue ==
    /\ \E s \in PriceValues, q \in QuantityValues, d \in DiscountValues :
          call = [fn |-> "calculateSimpleRevenue",
                  purchase |-> [sale_price |-> s, quantity |-> q, discount |-> d]]
    /\ pc = "call"
    /\ ret = 0
    /\ data = NotArr("undefined") /\ options = Undef /\ error = "none"
    /\ sellerStats = <<>> /\ ri = 0 /\ result = <<>>

CallRevenue ==
    /\ pc = "call"
    /\ call.fn = "calculateSimpleRevenue"
    /\ ret' = calculateSimpleRevenue(call.purchase, NoProduct)
    /\ pc' = "returned"
    /\ UNCHANGED <<data, options, error, sellerStats, ri, result, call>>

NextRevenue == CallRevenue

SpecRevenue == InitRevenue /\ [][NextRevenue]_vars

\* ================================================================ claims
\* The value a field contributes: its number, or 0 when it is missing or
\* not numeric.
FieldValue(f) == IF f.t \in {"number", "numstr"} THEN f.v ELSE 0

RECURSIVE SumFn(_)
SumFn(f) ==
    IF DOMAIN f = {} THEN 0
    ELSE LET x == CHOOSE x \in DOMAIN f : TRUE
         IN  f[x] + SumFn([y \in (DOMAIN f) \ {x} |-> f[y]])

Sellers == data.sellers.a
Records == data.purchase_records.a
SellerIds == {Sellers[i].id : i \in 1..Len(Sellers)}
InputPos(id) == CHOOSE i \in 1..Len(Sellers) : Sellers[i].id = id

\* The line items of the records that name seller id: <<record, item>>.
ItemRefs(id) ==
    UNION { {<<r, j>> : j \in 1..Len(Records[r].items)} :
            r \in {r \in 1..Len(Records) : Records[r].seller_id = id} }
ItemAt(ref) == Records[ref[1]].items[ref[2]]
CumQty(id, sku) ==
    SumFn([ref \in {x \in ItemRefs(id) : ItemAt(x).sku = sku} |->
              FieldValue(ItemAt(ref).quantity)])
SoldSkus(id) == {ItemAt(ref).sku : ref \in ItemRefs(id)}
Cogs(id) ==
    SumFn([ref \in ItemRefs(id) |->
              FieldValue(ProductIndex(data.products.a, ItemAt(ref).sku).purchase_price)
              * FieldValue(ItemAt(ref).quantity)])
LineRevenue(item) ==
    (FieldValue(item.sale_price) * FieldValue(item.quantity)
       * (100 - FieldValue(item.discount))) \div 100
ItemsRevenueOf(id) == SumFn([ref \in ItemRefs(id) |-> LineRevenue(ItemAt(ref))])
HasNumericTotal(record) == record.total_amount.t \in {"number", "numstr", "null"}

\* The accumulators after the fold, in input order.
Accumulated == FoldAll(InitStats(Sellers), Records, data.products.a)
AccProfit(id) == Accumulated[InputPos(id)].profit

\* ---------------------------------------------------------------- C1
\* C1: the returned sequence has as many records as data.sellers, exactly
\* one per input seller, and a seller no purchase record names has revenue
\* 0, profit 0, sales_count 0 and no top_products.
C1_OneResultPerSeller ==
    pc = "done" =>
      /\ Len(result) = Len(Sellers)
      /\ \A i \in 1..Len(Sellers) :
            LET hits == {k \in 1..Len(result) : result[k].seller_id = Sellers[i].id}
            IN  /\ Cardinality(hits) = 1
                /\ ItemRefs(Sellers[i].id) = {}
                     /\ (\A r \in 1..Len(Records) : Records[r].seller_id # Sellers[i].id)
                   => \A k \in hits :
                         /\ result[k].revenue = 0 /\ result[k].profit = 0
                         /\ result[k].sales_count = 0
                         /\ result[k].top_products = <<>>

C1_Witness ==
    /\ pc = "done"
    /\ Len(Sellers) = MaxSellers
    /\ \E id \in SellerIds : \A r \in 1..Len(Records) : Records[r].seller_id # id
    /\ \E id \in SellerIds : \E r \in 1..Len(Records) : Records[r].seller_id = id

\* ---------------------------------------------------------------- C2
\* C2: the returned sequence is ordered by profit descending (on the
\* returned, rounded profit and on the accumulated profit), and sellers of
\* equal accumulated profit keep their input order.
C2_SortedStable ==
    pc = "done" =>
      \A i \in 1..Len(result), j \in 1..Len(result) :
         i < j =>
           /\ result[i].profit >= result[j].profit
           /\ AccProfit(result[i].seller_id) >= AccProfit(result[j].seller_id)
           /\ AccProfit(result[i].seller_id) = AccProfit(result[j].seller_id)
                => InputPos(result[i].seller_id) < InputPos(result[j].seller_id)

C2_Witness ==
    /\ pc = "done"
    /\ Len(result) = 3
    /\ AccProfit(result[1].seller_id) = AccProfit(result[2].seller_id)
    /\ AccProfit(result[1].seller_id) # 0
    /\ AccProfit(result[2].seller_id) > AccProfit(result[3].seller_id)
    /\ InputPos(result[3].seller_id) = 1

RankedProfits == <<500 * Unit, 400 * Unit, 300 * Unit, 200 * Unit, 100 * Unit>>
ClaimedBonuses == <<75 * Unit, 40 * Unit, 30 * Unit, 15 * Unit, 0>>
ComputedBonuses == <<75 * Unit, 40 * Unit, 30 * Unit, 10 * Unit, 0>>
BonusesAre(expected) ==
    (pc = "returned" /\ call.fn = "calculateBonusByProfit" /\ call.total = 5) =>
      \A k \in 1..5 :
         (call.index = k - 1 /\ call.seller.profit = RankedProfits[k])
           => ret = expected[k]

\* C4 as written: five sellers of ranked profits 500, 400, 300, 200, 100
\* get the bonuses 75, 40, 30, 15, 0.
C4_ClaimedBonuses == BonusesAre(ClaimedBonuses)

\* C4 amended: they get 75, 40, 30, 10, 0 (rank 3 of 5 is the 5% tier, and
\* 5% of 200 is 10).
C4_ComputedBonuses == BonusesAre(ComputedBonuses)

C4_Witness ==
    /\ pc = "returned" /\ call.fn = "calculateBonusByProfit"
    /\ call.total = 5 /\ call.index = 3
    /\ call.seller.profit = 200 * Unit
    /\ ret = 10 * Unit

\* ---------------------------------------------------------------- C5
\* C5: with more than one seller, the last-ranked seller (index =
\* total - 1) gets a bonus of 0, for every total.
C5_LastSellerNoBonus ==
    (pc = "returned" /\ call.fn = "calculateBonusByProfit"
       /\ call.total > 1 /\ call.index = call.total - 1)
      => ret = 0

\* ---------------------------------------------------------------- C6
KnownRecords == SelectSeq(Records, LAMBDA r : r.seller_id \in SellerIds)

DataBad == data.t # "object"
SellersBad == data.sellers.t # "array" \/ data.sellers.a = <<>>
ProductsBad == data.products.t # "array" \/ data.products.a = <<>>
RecordsBad == data.purchase_records.t # "array" \/ data.purchase_records.a = <<>>
OptionsBad ==
    \/ options.t # "object"
    \/ options.calculateRevenue.t # "function"
    \/ options.calculateBonus.t # "function"
FirstFailure ==
    CASE DataBad -> "InvalidInput"
      [] ~DataBad /\ SellersBad -> "MissingSellers"
      [] ~DataBad /\ ~SellersBad /\ ProductsBad -> "MissingProducts"
      [] ~DataBad /\ ~SellersBad /\ ~ProductsBad /\ RecordsBad -> "MissingPurchaseRecords"
      [] ~DataBad /\ ~SellersBad /\ ~ProductsBad /\ ~RecordsBad /\ OptionsBad
           -> "InvalidOptions"
      [] OTHER -> "none"

\* C7: the run fails whenever data, sellers, products, purchase_records or
\* options is absent or of the wrong shape, with the error of the first
\* failing check in that order, returning nothing and before any
\* accumulator is built.
C7_FailsFastInOrder ==
    pc # "start" =>
      /\ error = FirstFailure
      /\ (DataBad \/ SellersBad \/ ProductsBad \/ RecordsBad \/ OptionsBad)
           <=> pc = "failed"
      /\ pc = "failed" => (sellerStats = <<>> /\ result = <<>> /\ ri = 0)

C7_Witness ==
    /\ pc = "failed"
    /\ error = "MissingSellers"
    /\ SellersBad /\ ProductsBad /\ RecordsBad /\ OptionsBad

\* ---------------------------------------------------------------- C8
RevenueByFormula ==
    LET s == FieldValue(call.purchase.sale_price)
        q == FieldValue(call.purchase.quantity)
        d == FieldValue(call.purchase.discount)
    IN  ret * 100 = s * q * (100 - d)

\* C8 as written: the amount returned is non-negative and equals
\* sale_price * quantity * (1 - discount/100), missing or non-numeric
\* fields counting as 0.
C8_NonNegativeFormula ==
    (pc = "returned" /\ call.fn = "calculateSimpleRevenue") =>
      (ret >= 0 /\ RevenueByFormula)

\* C8 amended: the amount equals the formula; it is non-negative when
\* sale_price * quantity >= 0 and discount <= 100, and negative when
\* sale_price * quantity > 0 and discount > 100.
C8_FormulaSigned ==
    (pc = "returned" /\ call.fn = "calculateSimpleRevenue") =>
      LET s == FieldValue(call.purchase.sale_price)
          q == FieldValue(call.purchase.quantity)
          d == FieldValue(call.purchase.discount)
      IN  /\ RevenueByFormula
          /\ (s * q >= 0 /\ d <= 100) => ret >= 0
          /\ (s * q > 0 /\ d > 100) => ret < 0

C8_Witness ==
    /\ pc = "returned" /\ call.fn = "calculateSimpleRevenue"
    /\ call.purchase.sale_price = Num(5 * Cent)
    /\ call.purchase.quantity = NumStr(3)
    /\ call.purchase.discount = Undef
    /\ ret = 15 * Cent

\* ---------------------------------------------------------------- C9
\* C9: every top_products has at most TopN entries, in descending order of
\* quantity, one per product key; each quantity is the cumulative quantity
\* of that key over the line items of the seller's records; and no product
\* left out has a larger cumulative quantity than one included.
C9_TopProducts ==
    pc = "done" =>
      \A k \in 1..Len(result) :
         LET top == result[k].top_products
             id == result[k].seller_id
             listed == {top[e].sku : e \in 1..Len(top)}
         IN  /\ Len(top) <= TopN
             /\ \A e \in 1..(Len(top) - 1) : top[e].quantity >= top[e + 1].quantity
             /\ Cardinality(listed) = Len(top)
             /\ listed \subseteq SoldSkus(id)
             /\ \A e \in 1..Len(top) : top[e].quantity = CumQty(id, top[e].sku)
             /\ \A sku \in SoldSkus(id) \ listed :
                   /\ Len(top) = TopN
                   /\ \A e \in 1..Len(top) : CumQty(id, sku) <= top[e].quantity

C9_Witness ==
    /\ pc = "done"
    /\ \E k \in 1..Len(result) :
          /\ Len(result[k].top_products) = TopN
          /\ SoldSkus(result[k].seller_id) \ {result[k].top_products[e].sku : e \in 1..TopN} # {}
          /\ result[k].sales_count = 2
          /\ result[k].top_products[1].quantity > result[k].top_products[TopN].quantity

\* ---------------------------------------------------------------- C10
\* C10 as written: for every seller the accumulated profit is the
\* accumulated revenue minus the cost of goods sold, for every mix of
\* records.
C10_ProfitIsRevenueMinusCost ==
    pc = "finalize" =>
      \A i \in 1..Len(sellerStats) :
         sellerStats[i].profit = sellerStats[i].revenue - Cogs(sellerStats[i].id)

\* C10 amended: the accumulated profit is the sum of the line items'
\* revenue minus the cost of goods sold; it is the accumulated revenue
\* minus the cost of goods sold for a seller whose records that carry a
\* numeric total_amount all carry the sum of their items' revenue.
C10_ProfitFromLineItems ==
    pc = "finalize" =>
      \A i \in 1..Len(sellerStats) :
         LET id == sellerStats[i].id
             mine == {r \in 1..Len(Records) : Records[r].seller_id = id}
         IN  /\ sellerStats[i].profit = ItemsRevenueOf(id) - Cogs(id)
             /\ (\A r \in mine :
                    HasNumericTotal(Records[r]) =>
                      FieldValue(Records[r].total_amount)
                        = SumFn([j \in 1..Len(Records[r].items) |->
                                    LineRevenue(Records[r].items[j])]))
                  => sellerStats[i].profit = sellerStats[i].revenue - Cogs(id)

C10_Witness ==
    /\ pc = "finalize"
    /\ \E i \in 1..Len(sellerStats) :
          /\ sellerStats[i].sales_count = 2
          /\ Cogs(sellerStats[i].id) > 0
          /\ sellerStats[i].profit = sellerStats[i].revenue - Cogs(sellerStats[i].id)
          /\ \E r \in 1..Len(Records) :
                /\ Records[r].seller_id = sellerStats[i].id
                /\ HasNumericTotal(Records[r])
          /\ \E r \in 1..Len(Records) :
                /\ Records[r].seller_id = sellerStats[i].id
                /\ ~HasNumericTotal(Records[r])

====
